---- MODULE Spec2Model ----
(***************************************************************************)
(* rosbag2: the rewrite merger (rosbag2_cpp/src/rosbag2_cpp/rewrite.cpp)   *)
(* and the playback engine (rosbag2_transport/.../player.cpp).             *)
(***************************************************************************)
EXTENDS Integers, Sequences, FiniteSets, TLC

\* ------------------------------------------------------------------ bounds
RwMaxReaders == 2
RwMaxWriters == 2
RwMaxLen == 2
RwMaxTs == 2

PlMaxLen == 2
PlMaxTs == 2
PlMaxQueue == 2
MaxPasses == 2
MaxCalls == 1
MaxSteps == 3

RcMaxTopics == 2
RcMaxPubs == 3

\* static_cast<size_t>(read_ahead_queue_size * read_ahead_lower_bound_percentage_),
\* the percentage (0.9) in tenths
LowerBoundTenths == 9

\* ================================================================= player
VARIABLES
  bag,                     \* the storage: the sequence of recorded messages
  read_ahead_queue_size,   \* play_options_.read_ahead_queue_size
  loop,                    \* play_options_.loop
  topics_to_filter,        \* play_options_.topics_to_filter
  publishers_,             \* topics that have a publisher
  starting_time_,          \* metadata.starting_time
  call_limit,              \* how many seek / play_next calls the environment makes
  cursor,                  \* Reader: index of the next stored message to consider
  reader_mutex_,           \* 0 (free) or the loader task holding it
  message_queue_,          \* the read-ahead queue (indices into bag), head first
  storage_loading_future_, \* 0 (no shared state) or the loader task it refers to
  lpc,                     \* per loader task: its position in load_storage_content
  l_i,                     \* per loader task: i of enqueue_up_to_boundary
  is_ready_to_play_from_queue_,
  skip_message_in_main_play_loop_,
  skip_mutex,              \* skip_message_in_main_play_loop_mutex_: "free", "play", "ctl"
  cancel_wait_for_next_message_,
  paused,                  \* clock_: paused flag
  now,                     \* clock_: current bag time
  ppc,                     \* play(): position of the thread running it
  p_ptr,                   \* play loop: message_ptr (0: nullptr, else the element peeked)
  p_stale,                 \* play loop: message_ptr's element was popped by another thread
  p_msg,                   \* play loop: message
  p_new,                   \* play(): the loader task std::async just started
  passes,                  \* play(): passes completed
  cpc,                     \* control thread: position in play_next / seek
  c_ptr,                   \* play_next: message_ptr
  c_published,             \* play_next: next_message_published
  c_t,                     \* seek: time_point
  calls,                   \* seek / play_next calls made so far
  published,               \* history: the messages published, in order
  seek_floor,              \* history: max(t, starting_time_) of a seek returned since the last publish
  quiet,                   \* history: pause() returned, no resume() / play_next() call since
  pn_ret,                  \* history: "none" during a play_next call, then what it returned
  pn_log                   \* history: what the play_next call in progress (or last) did

cfgvars == <<bag, read_ahead_queue_size, loop, topics_to_filter, publishers_,
             starting_time_, call_limit>>
rdvars == <<cursor, reader_mutex_, message_queue_>>
ldvars == <<storage_loading_future_, lpc, l_i>>
flagvars == <<is_ready_to_play_from_queue_, skip_message_in_main_play_loop_, skip_mutex,
              cancel_wait_for_next_message_>>
clkvars == <<paused, now>>
pvars == <<ppc, p_ptr, p_stale, p_msg, p_new, passes>>
cvars == <<cpc, c_ptr, c_published, c_t, calls>>
hvars == <<published, seek_floor, quiet, pn_ret, pn_log>>

plvars == <<cfgvars, rdvars, ldvars, flagvars, clkvars, pvars, cvars, hvars>>

\* =============================================================== recorder
VARIABLES
  rec_topics,              \* record_options_.topics: the explicit list, as written
  rec_exclude,             \* record_options_.exclude: the topics the exclude regex matches
  rmw_serialization_format,\* record_options_.rmw_serialization_format
  is_discovery_disabled,   \* record_options_.is_discovery_disabled
  unsubscribable,          \* the topics for which create_generic_subscription fails
  graph,                   \* middleware: per topic, the publishers by offered reliability
  subscriptions_,          \* map topic -> reliability its subscription requested
  topics_warned_about_incompatibility_,
  writer_open,             \* writer_: open() was called
  writer_topics,           \* writer_: the topics created and not removed
  callbacks,               \* transport: the topics with a subscription callback
  rec_pc,                  \* record(): position of the thread running it
  dpc,                     \* topics_discovery(): position of the discovery task
  d_topics,                \* topics_discovery: topics_to_subscribe
  d_todo,                  \* topics_discovery: topics the warn loop has not visited
  sub_todo,                \* subscribe_topics: topics the for loop has not visited
  sub_topic,               \* subscribe_topic: its argument ("" outside the call)
  sub_qos,                 \* subscribe_topic: its argument qos ("" outside the call)
  sub_subscription,        \* subscribe_topic: "none", or "created" / "null" once
                           \* create_subscription has returned
  warnings,                \* history: per topic, the incompatibility warnings logged
  write_log                \* history: the writes, each with whether the writer knew the topic

rccfg == <<rec_topics, rec_exclude, rmw_serialization_format, is_discovery_disabled,
           unsubscribable>>
rcvars == <<rccfg, graph, subscriptions_, topics_warned_about_incompatibility_,
            writer_open, writer_topics, callbacks, rec_pc, dpc, d_topics, d_todo,
            sub_todo, sub_topic, sub_qos, sub_subscription, warnings, write_log>>

subvars == <<sub_todo, sub_topic, sub_qos, sub_subscription>>

\* ================================================================ rewrite
VARIABLES
  input_bags,     \* rewrite: per reader, the sequence of its messages
  rd_pos,         \* rewrite: per reader, the number of messages read so far
  num_writers,    \* rewrite: number of output bags
  output_bags,    \* rewrite: per writer, the sequence of messages written
  next_messages,  \* rewrite: per reader, the read-ahead slot (nullptr if empty)
  next_msg,       \* rewrite: the message get_next returned
  rw_pc           \* rewrite: position of the rewrite() call

rwvars == <<input_bags, rd_pos, num_writers, output_bags, next_messages, next_msg,
            rw_pc>>

vars == <<rwvars, plvars, rcvars>>

nullptr == [time_stamp |-> 0, src |-> 0, seq |-> 0]

Max(a, b) == IF a >= b THEN a ELSE b

\* a reader's message: its time stamp, and where it comes from (reader, position)
RwMsg(i, k, t) == [time_stamp |-> t, src |-> i, seq |-> k]

IsSortedTs(s) == \A k \in 1..(Len(s) - 1) : s[k] <= s[k + 1]

RwTsSeqs == UNION {[1..n -> 1..RwMaxTs] : n \in 0..RwMaxLen}

\* Reader::has_next / Reader::read_next of reader i (an ordered cursor)
RwHasNext(i) == rd_pos[i] < Len(input_bags[i])

RwReadNext(i) == input_bags[i][rd_pos[i] + 1]

\* a refill that reads into every slot, full or not
RefillEverySlot(slots) ==
  [i \in DOMAIN slots |-> IF RwHasNext(i) THEN RwReadNext(i) ELSE slots[i]]

\* get_next, "refill queue": the slots after the refill loop
Refill(slots) ==
  [i \in DOMAIN slots |->
     IF slots[i] = nullptr /\ RwHasNext(i) THEN RwReadNext(i) ELSE slots[i]]

\* a selection that compares with > and so returns the latest message
RECURSIVE FindLatest(_, _, _, _)
FindLatest(slots, i, earliest_msg, earliest_msg_index) ==
  IF i > Len(slots) THEN <<earliest_msg, earliest_msg_index>>
  ELSE IF slots[i] = nullptr
       THEN FindLatest(slots, i + 1, earliest_msg, earliest_msg_index)
       ELSE IF earliest_msg = nullptr \/ slots[i].time_stamp > earliest_msg.time_stamp
            THEN FindLatest(slots, i + 1, slots[i], i)
            ELSE FindLatest(slots, i + 1, earliest_msg, earliest_msg_index)

\* a selection that compares with <= and so prefers the last of equal time stamps
RECURSIVE FindEarliestLastTie(_, _, _, _)
FindEarliestLastTie(slots, i, earliest_msg, earliest_msg_index) ==
  IF i > Len(slots) THEN <<earliest_msg, earliest_msg_index>>
  ELSE IF slots[i] = nullptr
       THEN FindEarliestLastTie(slots, i + 1, earliest_msg, earliest_msg_index)
       ELSE IF earliest_msg = nullptr \/ slots[i].time_stamp <= earliest_msg.time_stamp
            THEN FindEarliestLastTie(slots, i + 1, slots[i], i)
            ELSE FindEarliestLastTie(slots, i + 1, earliest_msg, earliest_msg_index)

\* get_next, "find message with lowest timestamp": the loop over the slots from
\* index i on, with the earliest message found so far and its index
RECURSIVE FindEarliest(_, _, _, _)
FindEarliest(slots, i, earliest_msg, earliest_msg_index) ==
  IF i > Len(slots) THEN <<earliest_msg, earliest_msg_index>>
  ELSE IF slots[i] = nullptr
       THEN FindEarliest(slots, i + 1, earliest_msg, earliest_msg_index)
       ELSE IF earliest_msg = nullptr \/ slots[i].time_stamp < earliest_msg.time_stamp
            THEN FindEarliest(slots, i + 1, slots[i], i)
            ELSE FindEarliest(slots, i + 1, earliest_msg, earliest_msg_index)

RwInit ==
  /\ \E n \in 0..RwMaxReaders :
       \E ts \in [1..n -> {s \in RwTsSeqs : IsSortedTs(s)}] :
         input_bags = [i \in 1..n |-> [k \in 1..Len(ts[i]) |-> RwMsg(i, k, ts[i][k])]]
  /\ num_writers \in 0..RwMaxWriters
  /\ rd_pos = [i \in 1..Len(input_bags) |-> 0]
  /\ output_bags = [w \in 1..num_writers |-> <<>>]
  /\ next_messages = <<>>
  /\ next_msg = nullptr
  /\ rw_pc = "start"

\* the rewrite variables while the player runs
RwOff ==
  /\ input_bags = <<>>
  /\ num_writers = 0
  /\ rd_pos = <<>>
  /\ output_bags = <<>>
  /\ next_messages = <<>>
  /\ next_msg = nullptr
  /\ rw_pc = "off"

\* a rewrite() without the argument check
RewriteEnterUnchecked ==
  /\ rw_pc = "start"
  /\ rw_pc' = "get_next"
  /\ next_messages' = [i \in 1..Len(input_bags) |-> nullptr]
  /\ UNCHANGED <<input_bags, rd_pos, num_writers, output_bags, next_msg, plvars, rcvars>>

\* rewrite(): the argument check and the set-up of next_messages
RewriteEnter ==
  /\ rw_pc = "start"
  /\ IF Len(input_bags) = 0 \/ num_writers = 0
     THEN /\ rw_pc' = "error"
          /\ UNCHANGED next_messages
     ELSE /\ rw_pc' = "get_next"
          /\ next_messages' = [i \in 1..Len(input_bags) |-> nullptr]
  /\ UNCHANGED <<input_bags, rd_pos, num_writers, output_bags, next_msg, plvars, rcvars>>

\* one call of get_next from the while condition of rewrite()
GetNext ==
  /\ rw_pc = "get_next"
  /\ LET filled == Refill(next_messages)
         found == FindEarliest(filled, 1, nullptr, 0)
     IN /\ rd_pos' = [i \in DOMAIN rd_pos |->
                        IF filled[i] # next_messages[i] THEN rd_pos[i] + 1 ELSE rd_pos[i]]
        /\ next_msg' = found[1]
        /\ next_messages' = IF found[1] # nullptr
                            THEN [filled EXCEPT ![found[2]] = nullptr]
                            ELSE filled
        /\ rw_pc' = IF found[1] # nullptr THEN "write" ELSE "done"
  /\ UNCHANGED <<input_bags, num_writers, output_bags, plvars, rcvars>>

\* the body of the while loop: next_msg goes to every writer
WriteAll ==
  /\ rw_pc = "write"
  /\ output_bags' = [w \in 1..num_writers |-> Append(output_bags[w], next_msg)]
  /\ rw_pc' = "get_next"
  /\ UNCHANGED <<input_bags, rd_pos, num_writers, next_messages, next_msg, plvars, rcvars>>

\* ================================================== player: definitions
Topics == {"a", "b"}

LoaderIds == {1, 2}

PlMsgs == [topic : Topics, time_stamp : 1..Max(PlMaxTs, PlMaxLen)]

IsSortedBag(b) == \A k \in 1..(Len(b) - 1) : b[k].time_stamp <= b[k + 1].time_stamp

PlBags(maxlen) == {b \in UNION {[1..n -> PlMsgs] : n \in 0..maxlen} : IsSortedBag(b)}

\* the bags whose k-th message has time stamp k
PlStrictBags(maxlen) == {b \in PlBags(maxlen) : \A k \in DOMAIN b : b[k].time_stamp = k}

Min(S) == CHOOSE x \in S : \A y \in S : x <= y

\* StorageFilter: the reader delivers message i iff the filter is empty or names its topic
PassesFilter(i) == topics_to_filter = {} \/ bag[i].topic \in topics_to_filter

\* the first stored message at index c or later that the reader delivers
NextIndex(c) ==
  LET S == {i \in c..Len(bag) : PassesFilter(i)}
  IN IF S = {} THEN Len(bag) + 1 ELSE Min(S)

\* Reader::has_next
HasNext == NextIndex(cursor) <= Len(bag)

\* Reader::read_next: the message returned (the cursor moves behind it)
ReadNext == NextIndex(cursor)

\* Reader::seek(t): the cursor goes to the first message with time_stamp >= t
ReaderSeek(t) ==
  LET S == {i \in 1..Len(bag) : bag[i].time_stamp >= t}
  IN IF S = {} THEN Len(bag) + 1 ELSE Min(S)

\* prepare_publishers: the topics that get a publisher, given the topics whose
\* create_generic_publisher throws
PreparePublishers(b, filter, unknown) ==
  {tp \in {b[i].topic : i \in DOMAIN b} :
     /\ filter = {} \/ tp \in filter
     /\ tp \notin unknown}

\* a publish_message that publishes whatever it is given
PublishMessageAnyTopic(m) == m \in 1..Len(bag)

\* publish_message: its result (whether the message is published)
PublishMessage(m) == bag[m].topic \in publishers_

\* the published history after publish_message(m) called by the play loop or play_next
PublishedAfter(m, by) ==
  IF PublishMessage(m)
  THEN Append(published, [msg |-> m, by |-> by])
  ELSE published

\* load_storage_content: queue_lower_boundary
QueueLowerBoundary == (read_ahead_queue_size * LowerBoundTenths) \div 10

\* message_queue_.peek(): 0 for nullptr
QueuePeek == IF message_queue_ = <<>> THEN 0 ELSE Head(message_queue_)

\* message_queue_.pop(): the queue afterwards
QueuePop == IF message_queue_ = <<>> THEN <<>> ELSE Tail(message_queue_)

\* is_storage_completely_loaded: the future afterwards (get() once the task is ready)
FutureAfterCheck ==
  IF storage_loading_future_ # 0 /\ lpc[storage_loading_future_] = "done"
  THEN 0 ELSE storage_loading_future_

\* is_storage_completely_loaded: its result
IsStorageCompletelyLoaded == FutureAfterCheck = 0

\* the loader tasks after is_storage_completely_loaded
LpcAfterCheck ==
  IF storage_loading_future_ # 0 /\ lpc[storage_loading_future_] = "done"
  THEN [lpc EXCEPT ![storage_loading_future_] = "off"] ELSE lpc

\* std::async: the task it starts, given the tasks running
FreeLoader(tasks) == CHOOSE l \in LoaderIds : tasks[l] = "off"

\* a dereference of a dangling message_ptr may end the process
Alive == ppc # "crashed"

PlInit(bags, sizes, loops, filters, unknowns, limit, start_paused) ==
  /\ bag \in bags
  /\ read_ahead_queue_size \in sizes
  /\ loop \in loops
  /\ topics_to_filter \in filters
  /\ \E unknown \in unknowns :
       publishers_ = PreparePublishers(bag, topics_to_filter, unknown)
  /\ starting_time_ = IF bag = <<>> THEN 0 ELSE bag[1].time_stamp
  /\ call_limit = limit
  /\ cursor = 1
  /\ reader_mutex_ = 0
  /\ message_queue_ = <<>>
  /\ storage_loading_future_ = 0
  /\ lpc = [l \in LoaderIds |-> "off"]
  /\ l_i = [l \in LoaderIds |-> 0]
  /\ is_ready_to_play_from_queue_ = FALSE
  /\ skip_message_in_main_play_loop_ = FALSE
  /\ skip_mutex = "free"
  /\ cancel_wait_for_next_message_ = FALSE
  /\ paused \in start_paused
  /\ now = starting_time_
  /\ ppc = "idle"
  /\ p_ptr = 0
  /\ p_stale = FALSE
  /\ p_msg = 0
  /\ p_new = 0
  /\ passes = 0
  /\ cpc = "idle"
  /\ c_ptr = 0
  /\ c_published = FALSE
  /\ c_t = 0
  /\ calls = 0
  /\ published = <<>>
  /\ seek_floor = 0
  /\ quiet = paused
  /\ pn_ret = "none"
  /\ pn_log = [how |-> "none", pub |-> 0, dropped |-> {}, n |-> 0]

\* the player variables while rewrite runs
PlOff == PlInit({<<>>}, {1}, {FALSE}, {{}}, {{}}, 0, {FALSE})

\* ======================================================= player: play()
\* play(): reader_->seek(starting_time_) and clock_->jump(starting_time_) under reader_mutex_
PlaySeekToStart ==
  /\ ppc \in {"idle", "again"}
  /\ reader_mutex_ = 0
  /\ cursor' = ReaderSeek(starting_time_)
  /\ now' = starting_time_
  /\ ppc' = "spawn"
  /\ UNCHANGED <<rcvars, rwvars, cfgvars, reader_mutex_, message_queue_, ldvars, flagvars, paused,
                 p_ptr, p_stale, p_msg, p_new, passes, cvars, hvars>>

\* play(): std::async(load_storage_content); the assignment to storage_loading_future_
\* waits for the task of the future it replaces
PlaySpawnLoader ==
  /\ ppc = "spawn"
  /\ \E l \in LoaderIds : lpc[l] = "off"
  /\ LET l == FreeLoader(lpc)
     IN /\ lpc' = [lpc EXCEPT ![l] = "top"]
        /\ IF storage_loading_future_ = 0
           THEN /\ storage_loading_future_' = l
                /\ ppc' = "wait_filled"
                /\ UNCHANGED p_new
           ELSE /\ p_new' = l
                /\ ppc' = "join_old"
                /\ UNCHANGED storage_loading_future_
  /\ UNCHANGED <<rcvars, rwvars, cfgvars, rdvars, l_i, flagvars, clkvars, p_ptr, p_stale, p_msg,
                 passes, cvars, hvars>>

PlayJoinOld ==
  /\ ppc = "join_old"
  /\ IF storage_loading_future_ = 0 THEN TRUE ELSE lpc[storage_loading_future_] = "done"
  /\ lpc' = LpcAfterCheck
  /\ storage_loading_future_' = p_new
  /\ p_new' = 0
  /\ ppc' = "wait_filled"
  /\ UNCHANGED <<rcvars, rwvars, cfgvars, rdvars, l_i, flagvars, clkvars, p_ptr, p_stale, p_msg,
                 passes, cvars, hvars>>

\* wait_for_filled_queue: the evaluation of the loop condition that ends the wait
PlayWaitFilled ==
  /\ ppc = "wait_filled"
  /\ IF Len(message_queue_) >= read_ahead_queue_size
     THEN UNCHANGED <<storage_loading_future_, lpc>>
     ELSE /\ IsStorageCompletelyLoaded
          /\ storage_loading_future_' = FutureAfterCheck
          /\ lpc' = LpcAfterCheck
  /\ ppc' = "first_peek"
  /\ UNCHANGED <<rcvars, rwvars, cfgvars, rdvars, l_i, flagvars, clkvars, p_ptr, p_stale, p_msg,
                 p_new, passes, cvars, hvars>>

\* play_messages_from_queue: peek_next_message_from_queue up to the end of its polling;
\* with a message peeked, is_ready_to_play_from_queue_ = true
PlayFirstPeek ==
  /\ ppc = "first_peek"
  /\ \/ /\ QueuePeek # 0
        /\ p_ptr' = QueuePeek
        /\ p_stale' = FALSE
        /\ is_ready_to_play_from_queue_' = TRUE
        /\ ppc' = "loop_head"
        /\ UNCHANGED <<storage_loading_future_, lpc>>
     \/ /\ QueuePeek = 0
        /\ IsStorageCompletelyLoaded
        /\ storage_loading_future_' = FutureAfterCheck
        /\ lpc' = LpcAfterCheck
        /\ ppc' = "first_final"
        /\ UNCHANGED <<p_ptr, p_stale, is_ready_to_play_from_queue_>>
  /\ UNCHANGED <<rcvars, rwvars, cfgvars, rdvars, l_i, skip_message_in_main_play_loop_, skip_mutex,
                 cancel_wait_for_next_message_, clkvars, p_msg, p_new, passes, cvars, hvars>>

\* peek_next_message_from_queue: the last peek ("workaround for race condition"),
\* then is_ready_to_play_from_queue_ = true
PlayFirstPeekFinal ==
  /\ ppc = "first_final"
  /\ p_ptr' = QueuePeek
  /\ p_stale' = FALSE
  /\ is_ready_to_play_from_queue_' = TRUE
  /\ ppc' = "loop_head"
  /\ UNCHANGED <<rcvars, rwvars, cfgvars, rdvars, ldvars, skip_message_in_main_play_loop_, skip_mutex,
                 cancel_wait_for_next_message_, clkvars, p_msg, p_new, passes, cvars, hvars>>

\* while (message_ptr != nullptr ...): message = *message_ptr
PlayDeref ==
  /\ ppc = "loop_head"
  /\ p_ptr # 0
  /\ ~p_stale
  /\ p_msg' = p_ptr
  /\ p_ptr' = 0
  /\ ppc' = "sleep"
  /\ UNCHANGED <<rcvars, rwvars, cfgvars, rdvars, ldvars, flagvars, clkvars, p_stale, p_new, passes,
                 cvars, hvars>>

\* message = *message_ptr after another thread popped the element: any message, or a crash
PlayDerefDangling ==
  /\ ppc = "loop_head"
  /\ p_ptr # 0
  /\ p_stale
  /\ \/ /\ p_msg' \in 1..Len(bag)
        /\ ppc' = "sleep"
     \/ /\ ppc' = "crashed"
        /\ UNCHANGED p_msg
  /\ p_ptr' = 0
  /\ p_stale' = FALSE
  /\ UNCHANGED <<rcvars, rwvars, cfgvars, rdvars, ldvars, flagvars, clkvars, p_new, passes,
                 cvars, hvars>>

PlayLoopExit ==
  /\ ppc = "loop_head"
  /\ p_ptr = 0
  /\ ppc' = "tail"
  /\ UNCHANGED <<rcvars, rwvars, cfgvars, rdvars, ldvars, flagvars, clkvars, p_ptr, p_stale, p_msg,
                 p_new, passes, cvars, hvars>>

\* clock_->sleep_until(message->time_stamp) returns true: not paused, time reached
PlaySleepReached ==
  /\ ppc = "sleep"
  /\ ~paused
  /\ now' = Max(now, bag[p_msg].time_stamp)
  /\ ppc' = "lock"
  /\ UNCHANGED <<rcvars, rwvars, cfgvars, rdvars, ldvars, flagvars, paused, p_ptr, p_stale, p_msg,
                 p_new, passes, cvars, hvars>>

\* sleep_until returns false and atomic_exchange(&cancel_wait_for_next_message_, false) is true
PlaySleepCancelled ==
  /\ ppc = "sleep"
  /\ cancel_wait_for_next_message_
  /\ cancel_wait_for_next_message_' = FALSE
  /\ ppc' = "lock"
  /\ UNCHANGED <<rcvars, rwvars, cfgvars, rdvars, ldvars, is_ready_to_play_from_queue_,
                 skip_message_in_main_play_loop_, skip_mutex, clkvars, p_ptr, p_stale, p_msg,
                 p_new, passes, cvars, hvars>>

\* lock skip_message_in_main_play_loop_mutex_; if (skip_message_in_main_play_loop_) {...}:
\* the flags are cleared, nothing is published or popped
PlaySkip ==
  /\ ppc = "lock"
  /\ skip_mutex = "free"
  /\ skip_message_in_main_play_loop_
  /\ skip_mutex' = "play"
  /\ skip_message_in_main_play_loop_' = FALSE
  /\ cancel_wait_for_next_message_' = FALSE
  /\ p_msg' = 0
  /\ ppc' = "repeek"
  /\ UNCHANGED <<rcvars, rwvars, cfgvars, rdvars, ldvars, is_ready_to_play_from_queue_, clkvars,
                 p_ptr, p_stale, p_new, passes, cvars, hvars>>

\* a play loop that does not look at skip_message_in_main_play_loop_
PlayPublishIgnoringSkip ==
  /\ ppc = "lock"
  /\ skip_mutex = "free"
  /\ skip_mutex' = "play"
  /\ published' = PublishedAfter(p_msg, "loop")
  /\ seek_floor' = IF PublishMessage(p_msg) THEN 0 ELSE seek_floor
  /\ message_queue_' = QueuePop
  /\ p_msg' = 0
  /\ ppc' = "repeek"
  /\ UNCHANGED <<rcvars, rwvars, cfgvars, cursor, reader_mutex_, ldvars,
                 is_ready_to_play_from_queue_, skip_message_in_main_play_loop_,
                 cancel_wait_for_next_message_, clkvars, p_ptr, p_stale, p_new, passes,
                 cvars, quiet, pn_ret, pn_log>>

\* lock skip_message_in_main_play_loop_mutex_; publish_message(message);
\* message_queue_.pop()
PlayPublish ==
  /\ ppc = "lock"
  /\ skip_mutex = "free"
  /\ ~skip_message_in_main_play_loop_
  /\ skip_mutex' = "play"
  /\ published' = PublishedAfter(p_msg, "loop")
  /\ seek_floor' = IF PublishMessage(p_msg) THEN 0 ELSE seek_floor
  /\ message_queue_' = QueuePop
  /\ p_msg' = 0
  /\ ppc' = "repeek"
  /\ UNCHANGED <<rcvars, rwvars, cfgvars, cursor, reader_mutex_, ldvars,
                 is_ready_to_play_from_queue_, skip_message_in_main_play_loop_,
                 cancel_wait_for_next_message_, clkvars, p_ptr, p_stale, p_new, passes,
                 cvars, quiet, pn_ret, pn_log>>

\* message_ptr = peek_next_message_from_queue() at the end of an iteration, which
\* releases skip_message_in_main_play_loop_mutex_
PlayRepeek ==
  /\ ppc = "repeek"
  /\ \/ /\ QueuePeek # 0
        /\ p_ptr' = QueuePeek
        /\ p_stale' = FALSE
        /\ skip_mutex' = "free"
        /\ ppc' = "loop_head"
        /\ UNCHANGED <<storage_loading_future_, lpc>>
     \/ /\ QueuePeek = 0
        /\ IsStorageCompletelyLoaded
        /\ storage_loading_future_' = FutureAfterCheck
        /\ lpc' = LpcAfterCheck
        /\ ppc' = "repeek_final"
        /\ UNCHANGED <<p_ptr, p_stale, skip_mutex>>
  /\ UNCHANGED <<rcvars, rwvars, cfgvars, rdvars, l_i, is_ready_to_play_from_queue_,
                 skip_message_in_main_play_loop_, cancel_wait_for_next_message_, clkvars,
                 p_msg, p_new, passes, cvars, hvars>>

PlayRepeekFinal ==
  /\ ppc = "repeek_final"
  /\ p_ptr' = QueuePeek
  /\ p_stale' = FALSE
  /\ skip_mutex' = "free"
  /\ ppc' = "loop_head"
  /\ UNCHANGED <<rcvars, rwvars, cfgvars, rdvars, ldvars, is_ready_to_play_from_queue_,
                 skip_message_in_main_play_loop_, cancel_wait_for_next_message_, clkvars,
                 p_msg, p_new, passes, cvars, hvars>>

\* a play_messages_from_queue without its final loop on is_paused()
PlayTailReturnWhilePaused ==
  /\ ppc = "tail"
  /\ ppc' = "clear_ready"
  /\ UNCHANGED <<rcvars, rwvars, cfgvars, rdvars, ldvars, flagvars, clkvars, p_ptr, p_stale, p_msg,
                 p_new, passes, cvars, hvars>>

\* while (is_paused()) {...}: play_messages_from_queue returns once not paused
PlayTailReturn ==
  /\ ppc = "tail"
  /\ ~paused
  /\ ppc' = "clear_ready"
  /\ UNCHANGED <<rcvars, rwvars, cfgvars, rdvars, ldvars, flagvars, clkvars, p_ptr, p_stale, p_msg,
                 p_new, passes, cvars, hvars>>

\* is_ready_to_play_from_queue_ = false after the pass; while (rclcpp::ok() && loop)
PlayClearReady ==
  /\ ppc = "clear_ready"
  /\ is_ready_to_play_from_queue_' = FALSE
  /\ passes' = passes + 1
  /\ ppc' = IF loop
            THEN IF passes + 1 < MaxPasses THEN "again" ELSE "capped"
            ELSE "done"
  /\ UNCHANGED <<rcvars, rwvars, cfgvars, rdvars, ldvars, skip_message_in_main_play_loop_, skip_mutex,
                 cancel_wait_for_next_message_, clkvars, p_ptr, p_stale, p_msg, p_new,
                 cvars, hvars>>

\* ============================================ player: load_storage_content
\* while (rclcpp::ok()): lock reader_mutex_; if (!reader_->has_next()) break
LoaderBreak(l) ==
  /\ Alive
  /\ lpc[l] = "top"
  /\ reader_mutex_ = 0
  /\ ~HasNext
  /\ lpc' = [lpc EXCEPT ![l] = "exit"]
  /\ UNCHANGED <<rcvars, rwvars, cfgvars, rdvars, storage_loading_future_, l_i, flagvars, clkvars,
                 pvars, cvars, hvars>>

\* size_approx() < queue_lower_boundary: enqueue_up_to_boundary starts; otherwise the
\* task unlocks and sleeps, which changes nothing
LoaderBegin(l) ==
  /\ Alive
  /\ lpc[l] = "top"
  /\ reader_mutex_ = 0
  /\ HasNext
  /\ Len(message_queue_) < QueueLowerBoundary
  /\ reader_mutex_' = l
  /\ l_i' = [l_i EXCEPT ![l] = Len(message_queue_)]
  /\ lpc' = [lpc EXCEPT ![l] = "enq"]
  /\ UNCHANGED <<rcvars, rwvars, cfgvars, cursor, message_queue_, storage_loading_future_, flagvars,
                 clkvars, pvars, cvars, hvars>>

\* an enqueue_up_to_boundary whose loop stops only at the end of the bag
LoaderEnqueueUnbounded(l) ==
  /\ Alive
  /\ lpc[l] = "enq"
  /\ HasNext
  /\ message_queue_' = Append(message_queue_, ReadNext)
  /\ cursor' = ReadNext + 1
  /\ l_i' = [l_i EXCEPT ![l] = l_i[l] + 1]
  /\ UNCHANGED <<rcvars, rwvars, cfgvars, reader_mutex_, storage_loading_future_, lpc, flagvars,
                 clkvars, pvars, cvars, hvars>>

\* enqueue_up_to_boundary: one iteration of the for loop
LoaderEnqueue(l) ==
  /\ Alive
  /\ lpc[l] = "enq"
  /\ l_i[l] < read_ahead_queue_size
  /\ HasNext
  /\ message_queue_' = Append(message_queue_, ReadNext)
  /\ cursor' = ReadNext + 1
  /\ l_i' = [l_i EXCEPT ![l] = l_i[l] + 1]
  /\ UNCHANGED <<rcvars, rwvars, cfgvars, reader_mutex_, storage_loading_future_, lpc, flagvars,
                 clkvars, pvars, cvars, hvars>>

\* enqueue_up_to_boundary returns; the iteration ends and unlocks reader_mutex_
LoaderEnd(l) ==
  /\ Alive
  /\ lpc[l] = "enq"
  /\ ~(l_i[l] < read_ahead_queue_size /\ HasNext)
  /\ reader_mutex_' = 0
  /\ l_i' = [l_i EXCEPT ![l] = 0]
  /\ lpc' = [lpc EXCEPT ![l] = "top"]
  /\ UNCHANGED <<rcvars, rwvars, cfgvars, cursor, message_queue_, storage_loading_future_,
                 flagvars, clkvars, pvars, cvars, hvars>>

\* load_storage_content has returned: the future becomes ready
LoaderFinish(l) ==
  /\ Alive
  /\ lpc[l] = "exit"
  /\ lpc' = [lpc EXCEPT ![l] = "done"]
  /\ UNCHANGED <<rcvars, rwvars, cfgvars, rdvars, storage_loading_future_, l_i, flagvars, clkvars,
                 pvars, cvars, hvars>>

\* ============================================== player: pause and resume
\* pause(): clock_->pause()
Pause ==
  /\ Alive
  /\ ~paused
  /\ paused' = TRUE
  /\ quiet' = TRUE
  /\ UNCHANGED <<rcvars, rwvars, cfgvars, rdvars, ldvars, flagvars, now, pvars, cvars, published,
                 seek_floor, pn_ret, pn_log>>

\* resume(): clock_->resume()
Resume ==
  /\ Alive
  /\ paused
  /\ paused' = FALSE
  /\ quiet' = FALSE
  /\ UNCHANGED <<rcvars, rwvars, cfgvars, rdvars, ldvars, flagvars, now, pvars, cvars, published,
                 seek_floor, pn_ret, pn_log>>

\* ===================================================== player: play_next
\* a play_next that takes over the play loop before it looks at the clock
PlayNextRejectedAfterTakeOver ==
  /\ Alive
  /\ cpc = "idle"
  /\ calls < call_limit
  /\ ~paused
  /\ skip_mutex = "free"
  /\ skip_message_in_main_play_loop_' = TRUE
  /\ calls' = calls + 1
  /\ pn_ret' = "false"
  /\ pn_log' = [how |-> "rejected", pub |-> 0, dropped |-> {}, n |-> 0]
  /\ UNCHANGED <<rcvars, rwvars, cfgvars, rdvars, ldvars, is_ready_to_play_from_queue_, skip_mutex,
                 cancel_wait_for_next_message_, clkvars, pvars, cpc, c_ptr, c_published,
                 c_t, published, seek_floor, quiet>>

\* play_next(): if (!clock_->is_paused()) return false
PlayNextRejected ==
  /\ Alive
  /\ cpc = "idle"
  /\ calls < call_limit
  /\ ~paused
  /\ calls' = calls + 1
  /\ pn_ret' = "false"
  /\ pn_log' = [how |-> "rejected", pub |-> 0, dropped |-> {}, n |-> 0]
  /\ UNCHANGED <<rcvars, rwvars, cfgvars, rdvars, ldvars, flagvars, clkvars, pvars, cpc, c_ptr,
                 c_published, c_t, published, seek_floor, quiet>>

\* play_next() called while paused
PlayNextEnter ==
  /\ Alive
  /\ cpc = "idle"
  /\ calls < call_limit
  /\ paused
  /\ calls' = calls + 1
  /\ cpc' = "pn_lock"
  /\ c_published' = FALSE
  /\ quiet' = FALSE
  /\ pn_ret' = "none"
  /\ pn_log' = [how |-> "ran", pub |-> 0, dropped |-> {}, n |-> 0]
  /\ UNCHANGED <<rcvars, rwvars, cfgvars, rdvars, ldvars, flagvars, clkvars, pvars, c_ptr, c_t,
                 published, seek_floor>>

\* lock skip_message_in_main_play_loop_mutex_; skip_message_in_main_play_loop_ = true
PlayNextLock ==
  /\ Alive
  /\ cpc = "pn_lock"
  /\ skip_mutex = "free"
  /\ skip_mutex' = "ctl"
  /\ skip_message_in_main_play_loop_' = TRUE
  /\ cpc' = "pn_wait"
  /\ UNCHANGED <<rcvars, rwvars, cfgvars, rdvars, ldvars, is_ready_to_play_from_queue_,
                 cancel_wait_for_next_message_, clkvars, pvars, c_ptr, c_published, c_t,
                 calls, hvars>>

\* ready_to_play_from_queue_cv_.wait(lk, is_ready_to_play_from_queue_)
PlayNextReady ==
  /\ Alive
  /\ cpc = "pn_wait"
  /\ is_ready_to_play_from_queue_
  /\ cpc' = "pn_peek"
  /\ UNCHANGED <<rcvars, rwvars, cfgvars, rdvars, ldvars, flagvars, clkvars, pvars, c_ptr,
                 c_published, c_t, calls, hvars>>

\* message_ptr = peek_next_message_from_queue(), up to the end of its polling
PlayNextPeek ==
  /\ Alive
  /\ cpc = "pn_peek"
  /\ \/ /\ QueuePeek # 0
        /\ c_ptr' = QueuePeek
        /\ cpc' = "pn_loop"
        /\ UNCHANGED <<storage_loading_future_, lpc>>
     \/ /\ QueuePeek = 0
        /\ IsStorageCompletelyLoaded
        /\ storage_loading_future_' = FutureAfterCheck
        /\ lpc' = LpcAfterCheck
        /\ cpc' = "pn_final"
        /\ UNCHANGED c_ptr
  /\ UNCHANGED <<rcvars, rwvars, cfgvars, rdvars, l_i, flagvars, clkvars, pvars, c_published, c_t,
                 calls, hvars>>

PlayNextPeekFinal ==
  /\ Alive
  /\ cpc = "pn_final"
  /\ c_ptr' = QueuePeek
  /\ cpc' = "pn_loop"
  /\ UNCHANGED <<rcvars, rwvars, cfgvars, rdvars, ldvars, flagvars, clkvars, pvars, c_published,
                 c_t, calls, hvars>>

\* a loop that goes on after a message has been published
PlayNextUntilQueueEnd == c_ptr # 0

\* play_next: while (message_ptr != nullptr && !next_message_published)
PlayNextLoopCondition == c_ptr # 0 /\ ~c_published

\* the body of while (message_ptr != nullptr && !next_message_published):
\* publish_message, clock_->jump, message_queue_.pop()
PlayNextPublish ==
  /\ Alive
  /\ cpc = "pn_loop"
  /\ PlayNextLoopCondition
  /\ c_published' = PublishMessage(c_ptr)
  /\ published' = PublishedAfter(c_ptr, "next")
  /\ seek_floor' = IF PublishMessage(c_ptr) THEN 0 ELSE seek_floor
  /\ pn_log' = IF PublishMessage(c_ptr)
               THEN [pn_log EXCEPT !.pub = c_ptr, !.n = pn_log.n + 1]
               ELSE [pn_log EXCEPT !.dropped = pn_log.dropped \cup {c_ptr}]
  /\ now' = bag[c_ptr].time_stamp
  /\ message_queue_' = QueuePop
  /\ p_stale' = (p_stale \/ p_ptr # 0)
  /\ c_ptr' = 0
  /\ cpc' = "pn_peek"
  /\ UNCHANGED <<rcvars, rwvars, cfgvars, cursor, reader_mutex_, ldvars, flagvars, paused, ppc,
                 p_ptr, p_msg, p_new, passes, c_t, calls, quiet, pn_ret>>

\* return next_message_published
PlayNextReturn ==
  /\ Alive
  /\ cpc = "pn_loop"
  /\ ~PlayNextLoopCondition
  /\ pn_ret' = IF c_published THEN "true" ELSE "false"
  /\ skip_mutex' = "free"
  /\ c_ptr' = 0
  /\ c_published' = FALSE
  /\ cpc' = "idle"
  /\ UNCHANGED <<rcvars, rwvars, cfgvars, rdvars, ldvars, is_ready_to_play_from_queue_,
                 skip_message_in_main_play_loop_, cancel_wait_for_next_message_, clkvars,
                 pvars, c_t, calls, published, seek_floor, quiet, pn_log>>

\* ========================================================== player: seek
\* seek(t) called: lock skip_message_in_main_play_loop_mutex_;
\* skip_message_in_main_play_loop_ = true
SeekEnter(t) ==
  /\ Alive
  /\ cpc = "idle"
  /\ calls < call_limit
  /\ skip_mutex = "free"
  /\ calls' = calls + 1
  /\ c_t' = t
  /\ skip_mutex' = "ctl"
  /\ skip_message_in_main_play_loop_' = TRUE
  /\ cpc' = "sk_wait"
  /\ UNCHANGED <<rcvars, rwvars, cfgvars, rdvars, ldvars, is_ready_to_play_from_queue_,
                 cancel_wait_for_next_message_, clkvars, pvars, c_ptr, c_published, hvars>>

\* the wait for is_ready_to_play_from_queue_; cancel_wait_for_next_message_ = true;
\* time_point clamped to starting_time_
SeekReady ==
  /\ Alive
  /\ cpc = "sk_wait"
  /\ is_ready_to_play_from_queue_
  /\ cancel_wait_for_next_message_' = TRUE
  /\ c_t' = Max(c_t, starting_time_)
  /\ cpc' = "sk_crit"
  /\ UNCHANGED <<rcvars, rwvars, cfgvars, rdvars, ldvars, is_ready_to_play_from_queue_,
                 skip_message_in_main_play_loop_, skip_mutex, clkvars, pvars, c_ptr,
                 c_published, calls, hvars>>

\* a seek() that does not lock reader_mutex_
SeekCriticalWithoutReaderMutex ==
  /\ Alive
  /\ cpc = "sk_crit"
  /\ message_queue_' = <<>>
  /\ p_stale' = (p_stale \/ (p_ptr # 0 /\ message_queue_ # <<>>))
  /\ cursor' = ReaderSeek(c_t)
  /\ now' = c_t
  /\ IF IsStorageCompletelyLoaded
     THEN /\ storage_loading_future_' = FreeLoader(LpcAfterCheck)
          /\ lpc' = [LpcAfterCheck EXCEPT ![FreeLoader(LpcAfterCheck)] = "top"]
     ELSE UNCHANGED <<storage_loading_future_, lpc>>
  /\ skip_mutex' = "free"
  /\ seek_floor' = c_t
  /\ c_t' = 0
  /\ cpc' = "idle"
  /\ UNCHANGED <<rcvars, rwvars, cfgvars, reader_mutex_, l_i, is_ready_to_play_from_queue_,
                 skip_message_in_main_play_loop_, cancel_wait_for_next_message_, paused,
                 ppc, p_ptr, p_msg, p_new, passes, c_ptr, c_published, calls,
                 published, quiet, pn_ret, pn_log>>

\* a seek() that leaves the queue as it is
SeekCriticalWithoutPurge ==
  /\ Alive
  /\ cpc = "sk_crit"
  /\ reader_mutex_ = 0
  /\ UNCHANGED message_queue_
  /\ UNCHANGED p_stale
  /\ cursor' = ReaderSeek(c_t)
  /\ now' = c_t
  /\ IF IsStorageCompletelyLoaded
     THEN /\ storage_loading_future_' = FreeLoader(LpcAfterCheck)
          /\ lpc' = [LpcAfterCheck EXCEPT ![FreeLoader(LpcAfterCheck)] = "top"]
     ELSE UNCHANGED <<storage_loading_future_, lpc>>
  /\ skip_mutex' = "free"
  /\ seek_floor' = c_t
  /\ c_t' = 0
  /\ cpc' = "idle"
  /\ UNCHANGED <<rcvars, rwvars, cfgvars, reader_mutex_, l_i, is_ready_to_play_from_queue_,
                 skip_message_in_main_play_loop_, cancel_wait_for_next_message_, paused,
                 ppc, p_ptr, p_msg, p_new, passes, c_ptr, c_published, calls,
                 published, quiet, pn_ret, pn_log>>

\* under reader_mutex_: purge the queue, reader_->seek, clock_->jump, restart the loader
\* task if it has finished; then seek returns
SeekCritical ==
  /\ Alive
  /\ cpc = "sk_crit"
  /\ reader_mutex_ = 0
  /\ message_queue_' = <<>>
  /\ p_stale' = (p_stale \/ (p_ptr # 0 /\ message_queue_ # <<>>))
  /\ cursor' = ReaderSeek(c_t)
  /\ now' = c_t
  /\ IF IsStorageCompletelyLoaded
     THEN /\ storage_loading_future_' = FreeLoader(LpcAfterCheck)
          /\ lpc' = [LpcAfterCheck EXCEPT ![FreeLoader(LpcAfterCheck)] = "top"]
     ELSE UNCHANGED <<storage_loading_future_, lpc>>
  /\ skip_mutex' = "free"
  /\ seek_floor' = c_t
  /\ c_t' = 0
  /\ cpc' = "idle"
  /\ UNCHANGED <<rcvars, rwvars, cfgvars, reader_mutex_, l_i, is_ready_to_play_from_queue_,
                 skip_message_in_main_play_loop_, cancel_wait_for_next_message_, paused,
                 ppc, p_ptr, p_msg, p_new, passes, c_ptr, c_published, calls,
                 published, quiet, pn_ret, pn_log>>

\* ====================================================== recorder
\* topic names as written in record_options_.topics, and as the middleware knows them
RcNames == {"x", "/x", "/y"}

RcTopicNames == {"/x", "/y"}

\* rclcpp::expand_topic_or_service_name in the root namespace
ExpandTopicName(n) == IF n = "x" THEN "/x" ELSE n

RcLists == UNION {[1..n -> RcNames] : n \in 0..RcMaxTopics}

NoPublishers == [t \in RcTopicNames |-> [reliable |-> 0, best_effort |-> 0]]

\* topic_filter::filter_topics: the available topics whose name is in the list
FilterTopics(selected, available) == available \cap selected

\* topic_filter::filter_topics_using_regex with an exclude expression only
FilterTopicsUsingRegex(available) == available \ rec_exclude

\* get_requested_or_available_topics: the topics of the graph, intersected with the
\* expanded explicit list when there is one, minus what the exclude regex matches
RequestedOrAvailableTopics ==
  LET all_topics == {t \in RcTopicNames : graph[t].reliable + graph[t].best_effort > 0}
      expanded_topics == {ExpandTopicName(rec_topics[k]) : k \in 1..Len(rec_topics)}
      filtered == IF Len(rec_topics) > 0 THEN FilterTopics(expanded_topics, all_topics)
                  ELSE all_topics
  IN IF rec_exclude = {} THEN filtered ELSE FilterTopicsUsingRegex(filtered)

\* a get_missing_topics that does not look at subscriptions_
MissingTopicsUnfiltered(all_topics) == all_topics

\* get_missing_topics
MissingTopics(all_topics) == {t \in all_topics : t \notin DOMAIN subscriptions_}

\* subscription_qos_for_topic: Rosbag2QoS::adapt_request_to_offers
AdaptRequestToOffers(t) ==
  IF graph[t].best_effort > 0 THEN "best_effort" ELSE "reliable"

\* warn_if_new_qos_for_subscribed_topic: the warnings its loop over the publishers logs
NewQosWarnings(t) ==
  IF t \notin DOMAIN subscriptions_ THEN 0
  ELSE IF t \in topics_warned_about_incompatibility_ THEN 0
  ELSE IF subscriptions_[t] = "reliable" THEN graph[t].best_effort
  ELSE 0

RcInit(lists, excludes, formats, disabled, failing) ==
  /\ rec_topics \in lists
  /\ rec_exclude \in excludes
  /\ rmw_serialization_format \in formats
  /\ is_discovery_disabled \in disabled
  /\ unsubscribable \in failing
  /\ graph = NoPublishers
  /\ subscriptions_ = <<>>
  /\ topics_warned_about_incompatibility_ = {}
  /\ writer_open = FALSE
  /\ writer_topics = {}
  /\ callbacks = {}
  /\ rec_pc = "start"
  /\ dpc = "off"
  /\ d_topics = {}
  /\ d_todo = {}
  /\ sub_todo = {}
  /\ sub_topic = ""
  /\ sub_qos = ""
  /\ sub_subscription = "none"
  /\ warnings = [t \in RcTopicNames |-> 0]
  /\ write_log = {}

\* the recorder variables while the player or rewrite runs
RcOff == RcInit({<<>>}, {{}}, {"cdr"}, {TRUE}, {{}})

\* middleware: a publisher for topic t appears
PublisherAppears(t, reliability) ==
  /\ graph["/x"].reliable + graph["/x"].best_effort
       + graph["/y"].reliable + graph["/y"].best_effort < RcMaxPubs
  /\ graph' = [graph EXCEPT ![t][reliability] = @ + 1]
  /\ UNCHANGED <<rwvars, plvars, rccfg, subscriptions_,
                 topics_warned_about_incompatibility_, writer_open, writer_topics,
                 callbacks, rec_pc, dpc, d_topics, d_todo, subvars,
                 warnings, write_log>>

\* transport: the subscription callback of topic t runs: writer_->write
Deliver(t) ==
  /\ t \in callbacks
  /\ write_log' = write_log \cup {[topic |-> t, known |-> t \in writer_topics]}
  /\ UNCHANGED <<rwvars, plvars, rccfg, graph, subscriptions_,
                 topics_warned_about_incompatibility_, writer_open, writer_topics,
                 callbacks, rec_pc, dpc, d_topics, d_todo, subvars,
                 warnings>>

\* a record() that opens the writer before it checks the format
RecordFailAfterOpen ==
  /\ rec_pc = "start"
  /\ rmw_serialization_format = ""
  /\ writer_open' = TRUE
  /\ rec_pc' = "error"
  /\ UNCHANGED <<rwvars, plvars, rccfg, graph, subscriptions_,
                 topics_warned_about_incompatibility_, writer_topics, callbacks, dpc,
                 d_topics, d_todo, subvars, warnings, write_log>>

\* record(): the check of rmw_serialization_format
RecordFail ==
  /\ rec_pc = "start"
  /\ rmw_serialization_format = ""
  /\ rec_pc' = "error"
  /\ UNCHANGED <<rwvars, plvars, rccfg, graph, subscriptions_,
                 topics_warned_about_incompatibility_, writer_open, writer_topics,
                 callbacks, dpc, d_topics, d_todo, subvars,
                 warnings, write_log>>

\* record(): writer_->open, then subscribe_topics(get_requested_or_available_topics())
RecordOpen ==
  /\ rec_pc = "start"
  /\ rmw_serialization_format # ""
  /\ writer_open' = TRUE
  /\ sub_todo' = RequestedOrAvailableTopics
  /\ rec_pc' = "subscribing"
  /\ UNCHANGED <<rwvars, plvars, rccfg, graph, subscriptions_,
                 topics_warned_about_incompatibility_, writer_topics, callbacks, dpc,
                 d_topics, d_todo, sub_topic, sub_qos, sub_subscription,
                 warnings, write_log>>

\* record(): the initial subscribe_topics has returned; the discovery task is started
\* unless discovery is disabled
RecordStartDiscovery ==
  /\ rec_pc = "subscribing"
  /\ sub_todo = {}
  /\ sub_topic = ""
  /\ rec_pc' = "recording"
  /\ dpc' = IF is_discovery_disabled THEN "off" ELSE "top"
  /\ UNCHANGED <<rwvars, plvars, rccfg, graph, subscriptions_,
                 topics_warned_about_incompatibility_, writer_open, writer_topics,
                 callbacks, d_topics, d_todo, subvars, warnings,
                 write_log>>

\* subscribe_topics / subscribe_topic run on the thread of record() first and on the
\* discovery task afterwards
InSubscribeTopics == rec_pc = "subscribing" \/ dpc = "subscribe"

\* a subscribe_topic that does not tell the writer about the topic
SubscribeTopicWithoutCreateTopic(t) ==
  /\ InSubscribeTopics
  /\ sub_topic = ""
  /\ t \in sub_todo
  /\ sub_todo' = sub_todo \ {t}
  /\ sub_topic' = t
  /\ sub_qos' = AdaptRequestToOffers(t)
  /\ UNCHANGED <<rwvars, plvars, rccfg, graph, subscriptions_,
                 topics_warned_about_incompatibility_, writer_open, writer_topics,
                 callbacks, rec_pc, dpc, d_topics, d_todo, sub_subscription, warnings,
                 write_log>>

\* subscribe_topics: the next topic of the loop, its qos from
\* subscription_qos_for_topic; subscribe_topic: writer_->create_topic
SubscribeTopicCreateTopic(t) ==
  /\ InSubscribeTopics
  /\ sub_topic = ""
  /\ t \in sub_todo
  /\ sub_todo' = sub_todo \ {t}
  /\ sub_topic' = t
  /\ sub_qos' = AdaptRequestToOffers(t)
  /\ writer_topics' = writer_topics \cup {t}
  /\ UNCHANGED <<rwvars, plvars, rccfg, graph, subscriptions_,
                 topics_warned_about_incompatibility_, writer_open, callbacks, rec_pc,
                 dpc, d_topics, d_todo, sub_subscription, warnings, write_log>>

\* subscribe_topic: create_subscription; from here on the callback may run
SubscribeTopicCreateSubscription ==
  /\ sub_topic # ""
  /\ sub_subscription = "none"
  /\ IF sub_topic \in unsubscribable
       THEN /\ sub_subscription' = "null"
            /\ UNCHANGED callbacks
       ELSE /\ sub_subscription' = "created"
            /\ callbacks' = callbacks \cup {sub_topic}
  /\ UNCHANGED <<rwvars, plvars, rccfg, graph, subscriptions_,
                 topics_warned_about_incompatibility_, writer_open, writer_topics,
                 rec_pc, dpc, d_topics, d_todo, sub_todo, sub_topic, sub_qos, warnings,
                 write_log>>

\* subscribe_topic: the subscription exists: subscriptions_.insert
SubscribeTopicInsert ==
  /\ sub_subscription = "created"
  /\ subscriptions_' = [t \in DOMAIN subscriptions_ \cup {sub_topic} |->
                          IF t \in DOMAIN subscriptions_ THEN subscriptions_[t]
                          ELSE sub_qos]
  /\ sub_topic' = ""
  /\ sub_qos' = ""
  /\ sub_subscription' = "none"
  /\ UNCHANGED <<rwvars, plvars, rccfg, graph, topics_warned_about_incompatibility_,
                 writer_open, writer_topics, callbacks, rec_pc, dpc, d_topics, d_todo,
                 sub_todo, warnings, write_log>>

\* subscribe_topic: the subscription is null: writer_->remove_topic, subscriptions_.erase
SubscribeTopicRemoveTopic ==
  /\ sub_subscription = "null"
  /\ writer_topics' = writer_topics \ {sub_topic}
  /\ subscriptions_' = [t \in DOMAIN subscriptions_ \ {sub_topic} |-> subscriptions_[t]]
  /\ sub_topic' = ""
  /\ sub_qos' = ""
  /\ sub_subscription' = "none"
  /\ UNCHANGED <<rwvars, plvars, rccfg, graph, topics_warned_about_incompatibility_,
                 writer_open, callbacks, rec_pc, dpc, d_topics, d_todo, sub_todo,
                 warnings, write_log>>

\* topics_discovery: get_requested_or_available_topics at the head of a round
DiscoveryBegin ==
  /\ dpc = "top"
  /\ d_topics' = RequestedOrAvailableTopics
  /\ d_todo' = RequestedOrAvailableTopics
  /\ dpc' = "warn"
  /\ UNCHANGED <<rwvars, plvars, rccfg, graph, subscriptions_,
                 topics_warned_about_incompatibility_, writer_open, writer_topics,
                 callbacks, rec_pc, subvars, warnings, write_log>>

\* topics_discovery: warn_if_new_qos_for_subscribed_topic for one topic of the round
DiscoveryWarn(t) ==
  /\ dpc = "warn"
  /\ t \in d_todo
  /\ d_todo' = d_todo \ {t}
  /\ warnings' = [warnings EXCEPT ![t] = @ + NewQosWarnings(t)]
  /\ topics_warned_about_incompatibility_' =
       IF NewQosWarnings(t) > 0 THEN topics_warned_about_incompatibility_ \cup {t}
       ELSE topics_warned_about_incompatibility_
  /\ UNCHANGED <<rwvars, plvars, rccfg, graph, subscriptions_, writer_open,
                 writer_topics, callbacks, rec_pc, dpc, d_topics, subvars, write_log>>

\* topics_discovery: subscribe_topics(get_missing_topics(topics_to_subscribe))
DiscoveryMissing ==
  /\ dpc = "warn"
  /\ d_todo = {}
  /\ sub_todo' = MissingTopics(d_topics)
  /\ dpc' = "subscribe"
  /\ UNCHANGED <<rwvars, plvars, rccfg, graph, subscriptions_,
                 topics_warned_about_incompatibility_, writer_open, writer_topics,
                 callbacks, rec_pc, d_topics, d_todo, sub_topic, sub_qos,
                 sub_subscription, warnings, write_log>>

\* topics_discovery: the end of a round: return when every listed topic is counted as
\* subscribed, else sleep and start the next round
DiscoveryCheck ==
  /\ dpc = "subscribe"
  /\ sub_todo = {}
  /\ sub_topic = ""
  /\ dpc' = IF Len(rec_topics) > 0
                /\ Cardinality(DOMAIN subscriptions_) = Len(rec_topics)
             THEN "done" ELSE "top"
  /\ UNCHANGED <<rwvars, plvars, rccfg, graph, subscriptions_,
                 topics_warned_about_incompatibility_, writer_open, writer_topics,
                 callbacks, rec_pc, d_topics, d_todo, subvars, warnings, write_log>>

\* ======================================================== specifications
PlayActions ==
  \/ PlaySeekToStart \/ PlaySpawnLoader \/ PlayWaitFilled \/ PlayFirstPeek
  \/ PlayFirstPeekFinal \/ PlayDeref \/ PlayLoopExit \/ PlaySleepReached
  \/ PlayPublish \/ PlayRepeek \/ PlayRepeekFinal \/ PlayTailReturn
  \/ PlayClearReady

LoaderActions ==
  \E l \in LoaderIds :
    LoaderBreak(l) \/ LoaderBegin(l) \/ LoaderEnqueue(l) \/ LoaderEnd(l) \/ LoaderFinish(l)

PlayNextActions ==
  \/ PlayNextRejected \/ PlayNextEnter \/ PlayNextLock \/ PlayNextReady \/ PlayNextPeek
  \/ PlayNextPeekFinal \/ PlayNextPublish \/ PlayNextReturn

\* seek with any requested time: before the bag, inside it, behind its end
SeekActions ==
  \/ (\E t \in 0..(Len(bag) + 1) : SeekEnter(t)) \/ SeekReady \/ SeekCritical

\* seek with the time stamp of a message of the bag
SeekInsideActions ==
  \/ (\E t \in 1..Len(bag) : SeekEnter(t)) \/ SeekReady \/ SeekCritical

PlayThread == PlayActions \/ PlayDerefDangling \/ PlaySleepCancelled \/ PlaySkip

\* a play() pass without control operations
PlainInit ==
  /\ RwOff
  /\ RcOff
  /\ PlInit(PlBags(PlMaxLen), 1..PlMaxQueue, {FALSE}, SUBSET Topics, SUBSET Topics, 0, {FALSE})

PlainNext == PlayActions \/ LoaderActions

SpecPlain == PlainInit /\ [][PlainNext]_vars /\ WF_vars(PlainNext)

\* the player (loop disabled) with pause, resume, play_next and seek
FullInit ==
  /\ RwOff
  /\ RcOff
  /\ PlInit(PlStrictBags(PlMaxLen), 1..PlMaxQueue, {FALSE}, {{}}, {{}, {"b"}}, MaxCalls,
            {FALSE})

Next ==
  \/ PlayThread
  \/ LoaderActions
  \/ Pause \/ Resume
  \/ PlayNextActions
  \/ SeekActions

Spec == FullInit /\ [][Next]_vars

\* the same with a topic filter
FilterInit ==
  /\ RwOff
  /\ RcOff
  /\ PlInit(PlStrictBags(PlMaxLen), 1..PlMaxQueue, {FALSE}, {{"a"}, {"a", "b"}},
            {{}, {"b"}}, MaxCalls, {FALSE})

SpecFilter == FilterInit /\ [][Next]_vars

\* the player in loop mode
LoopInit ==
  /\ RwOff
  /\ RcOff
  /\ PlInit(PlStrictBags(PlMaxLen), 2..PlMaxQueue, {TRUE}, {{}}, {{}}, MaxCalls, {FALSE})

LoopNext ==
  \/ PlayThread \/ PlayJoinOld
  \/ LoaderActions
  \/ Pause \/ Resume
  \/ PlayNextActions
  \/ SeekInsideActions

SpecLoop == LoopInit /\ [][LoopNext]_vars

\* the player (loop disabled, queue of 2 or more) with every thread scheduled fairly:
\* play(), the loader tasks, and the play_next and seek calls once they are made
FairInit ==
  /\ RwOff
  /\ RcOff
  /\ PlInit(PlStrictBags(PlMaxLen), 2..PlMaxQueue, {FALSE}, {{}}, {{}}, MaxCalls, {FALSE})

ControlReturns ==
  \/ PlayNextLock \/ PlayNextReady \/ PlayNextPeek \/ PlayNextPeekFinal
  \/ PlayNextPublish \/ PlayNextReturn
  \/ SeekReady \/ SeekCritical

SpecFair ==
  /\ FairInit
  /\ [][Next]_vars
  /\ WF_vars(PlayThread) /\ WF_vars(LoaderActions) /\ WF_vars(ControlReturns)

\* a bag longer than the queue, so that the loader task works in several batches
BoundInit ==
  /\ RwOff
  /\ RcOff
  /\ PlInit({[k \in 1..(PlMaxLen + 1) |-> [topic |-> "a", time_stamp |-> k]]},
            {PlMaxQueue}, BOOLEAN, {{}}, {{}}, MaxCalls, {FALSE})

BoundNext ==
  \/ PlayThread \/ PlayJoinOld
  \/ LoaderActions
  \/ Pause \/ Resume
  \/ PlayNextActions
  \/ SeekActions

SpecBound == BoundInit /\ [][BoundNext]_vars

\* loop mode with a queue large enough for a refill below the lower boundary while
\* the queue is not empty
LoopAheadInit ==
  /\ RwOff
  /\ RcOff
  /\ PlInit(PlStrictBags(PlMaxLen), {PlMaxQueue + 1}, {TRUE}, {{}}, {{}}, MaxCalls,
            {FALSE})

SpecLoopAhead == LoopAheadInit /\ [][LoopNext]_vars

\* the player paused from the start and never resumed, stepped with play_next,
\* each thread scheduled fairly
StepInit ==
  /\ RwOff
  /\ RcOff
  /\ PlInit(PlStrictBags(PlMaxLen), 1..PlMaxQueue, {FALSE}, {{}}, {{}}, MaxSteps, {TRUE})

StepPlayThread ==
  \/ PlaySeekToStart \/ PlaySpawnLoader \/ PlayWaitFilled \/ PlayFirstPeek
  \/ PlayFirstPeekFinal \/ PlayDeref \/ PlayDerefDangling \/ PlayLoopExit

StepCalls ==
  \/ PlayNextEnter \/ PlayNextLock \/ PlayNextReady \/ PlayNextPeek
  \/ PlayNextPeekFinal \/ PlayNextPublish \/ PlayNextReturn

StepNext == StepPlayThread \/ LoaderActions \/ StepCalls

SpecStep ==
  /\ StepInit
  /\ [][StepNext]_vars
  /\ WF_vars(StepPlayThread) /\ WF_vars(LoaderActions) /\ WF_vars(StepCalls)

\* the player with seek, each thread scheduled fairly
SeekInit ==
  /\ RwOff
  /\ RcOff
  /\ PlInit(PlStrictBags(PlMaxLen), 2..PlMaxQueue, {FALSE}, {{}}, {{}}, MaxCalls, {FALSE})

SeekReturns == SeekReady \/ SeekCritical

SeekNext == PlayThread \/ LoaderActions \/ Pause \/ Resume \/ SeekActions

SpecSeekFair ==
  /\ SeekInit
  /\ [][SeekNext]_vars
  /\ WF_vars(PlayThread) /\ WF_vars(LoaderActions) /\ WF_vars(SeekReturns)

RwNext == RewriteEnter \/ GetNext \/ WriteAll

\* rewrite() alone, the player not constructed
RewriteInit ==
  /\ PlOff
  /\ RcOff
  /\ RwInit

SpecRewrite == RewriteInit /\ [][RwNext]_vars

\* the recorder: record() and the discovery task, against any publishers appearing and
\* any deliveries
RecordInit ==
  /\ PlOff
  /\ RwOff
  /\ RcInit(RcLists, {{}, {"/y"}}, {"", "cdr"}, BOOLEAN, {{}, {"/y"}})

SubscribeActions ==
  \/ \E t \in RcTopicNames : SubscribeTopicCreateTopic(t)
  \/ SubscribeTopicCreateSubscription
  \/ SubscribeTopicInsert
  \/ SubscribeTopicRemoveTopic

RecordActions == RecordFail \/ RecordOpen \/ RecordStartDiscovery

DiscoveryActions ==
  \/ DiscoveryBegin
  \/ \E t \in RcTopicNames : DiscoveryWarn(t)
  \/ DiscoveryMissing
  \/ DiscoveryCheck

RecorderThreads == RecordActions \/ SubscribeActions \/ DiscoveryActions

Middleware ==
  \/ \E t \in RcTopicNames, r \in {"reliable", "best_effort"} : PublisherAppears(t, r)
  \/ \E t \in RcTopicNames : Deliver(t)

RecordNext == RecorderThreads \/ Middleware

SpecRecorder == RecordInit /\ [][RecordNext]_vars /\ WF_vars(RecorderThreads)

\* ================================================================= claims
\* the time stamps of a sequence of messages
TimeStamps(msgs) == [k \in 1..Len(msgs) |-> msgs[k].time_stamp]

\* every message of every input reader
AllInputMessages == UNION {{input_bags[i][k] : k \in 1..Len(input_bags[i])} :
                             i \in 1..Len(input_bags)}

\* C2: with every input reader delivering its messages in non-decreasing time stamp
\* order, what rewrite() has written to each writer is in non-decreasing time stamp
\* order, at every moment of the merge
C2_OutputSorted ==
  \A w \in 1..num_writers : IsSortedTs(TimeStamps(output_bags[w]))

\* C2 witness: rewrite() ended after merging two readers of different lengths, and
\* a message of the second reader was written before a message of the first
C2_Witness ==
  /\ rw_pc = "done"
  /\ Len(input_bags) = 2
  /\ Len(input_bags[1]) # Len(input_bags[2])
  /\ \E k \in 1..(Len(output_bags[1]) - 1) :
       output_bags[1][k].src = 2 /\ output_bags[1][k + 1].src = 1

\* C3: when rewrite() ends, every writer holds every message of every input reader
\* exactly once, and all writers hold the same sequence; before that no writer holds
\* a message twice or a message no reader has
C3_EveryMessageOnce ==
  /\ \A w \in 1..num_writers :
       /\ \A k \in 1..Len(output_bags[w]) : output_bags[w][k] \in AllInputMessages
       /\ \A j, k \in 1..Len(output_bags[w]) :
            output_bags[w][j] = output_bags[w][k] => j = k
       /\ output_bags[w] = output_bags[1]
  /\ rw_pc = "done" =>
       \A w \in 1..num_writers :
         {output_bags[w][k] : k \in 1..Len(output_bags[w])} = AllInputMessages

\* C3 witness: rewrite() ended with two writers and two readers, one of them with
\* two messages and the other with at least one
C3_Witness ==
  /\ rw_pc = "done"
  /\ num_writers = 2
  /\ Len(input_bags) = 2
  /\ Len(input_bags[1]) = 2
  /\ Len(input_bags[2]) >= 1
  /\ Len(output_bags[2]) >= 3

\* the messages published so far, as bag indices
PublishedMsgs == [k \in 1..Len(published) |-> published[k].msg]

RECURSIVE Ascending(_)
Ascending(S) == IF S = {} THEN <<>> ELSE <<Min(S)>> \o Ascending(S \ {Min(S)})

\* what the reader delivers from starting_time_ on, restricted to topics with a publisher
ExpectedPass ==
  Ascending({i \in 1..Len(bag) :
               /\ bag[i].time_stamp >= starting_time_
               /\ PassesFilter(i)
               /\ bag[i].topic \in publishers_})

\* C1: a play() pass without pause, seek, play_next or shutdown comes to its end having
\* published exactly the reader's sequence from starting_time_ restricted to the topics
\* with a publisher, in order, none missing, none twice, for every queue size N > 0
C1_PassPublishesBag ==
  /\ [](\E n \in 0..Len(ExpectedPass) : PublishedMsgs = SubSeq(ExpectedPass, 1, n))
  /\ <>(ppc = "done" /\ PublishedMsgs = ExpectedPass)

\* C4: after seek(t) has returned, the next message published (by the play loop or by
\* play_next) has time_stamp >= max(t, starting_time_)
C4_NextPublishedNotBeforeSeek ==
  [][(Len(published') > Len(published) /\ seek_floor # 0)
       => bag[published'[Len(published')].msg].time_stamp >= seek_floor]_vars

\* C5: after pause() has returned and until resume() or play_next() is called, the
\* play loop publishes nothing
C5_NoLoopPublishAfterPause ==
  [][(Len(published') > Len(published) /\ published'[Len(published')].by = "loop")
       => ~quiet]_vars

\* C6: a play_next() call made while paused publishes at most one message, returns
\* true iff it published exactly one, and takes from the queue without publishing only
\* messages whose topic has no publisher and that come before the published one
C6_PlayNextAtMostOne ==
  pn_log.how = "ran" =>
    /\ pn_log.n <= 1
    /\ pn_ret # "none" => (pn_ret = "true" <=> pn_log.n = 1)
    /\ \A m \in pn_log.dropped :
         /\ bag[m].topic \notin publishers_
         /\ pn_log.pub # 0 => m < pn_log.pub

\* C6 witness: a play_next() call returned true after dropping a message without a
\* publisher and publishing the one behind it
C6_Witness ==
  /\ pn_log.how = "ran"
  /\ pn_ret = "true"
  /\ pn_log.dropped # {}
  /\ pn_log.pub # 0

\* C7: with the player paused for the whole run and every message having a publisher,
\* the k-th play_next() call publishes the k-th message and returns true, the call
\* after the last message returns false, the play loop publishes nothing, and every
\* call returns
C7_StepThroughBag ==
  /\ [](/\ \A k \in 1..Len(published) : published[k] = [msg |-> k, by |-> "next"]
        /\ (cpc = "idle" /\ calls > 0) =>
             /\ Len(published) = IF calls <= Len(bag) THEN calls ELSE Len(bag)
             /\ pn_ret = IF calls <= Len(bag) THEN "true" ELSE "false")
  /\ ((cpc # "idle") ~> (cpc = "idle" \/ ~Alive))

\* C8: play_next() invoked while the clock is not paused returns false at once and
\* changes nothing: not the skip flag, not the queue, not what is published, not the
\* clock
C8_PlayNextNotPausedNoEffect ==
  [][(calls' = calls + 1 /\ cpc' # "sk_wait" /\ ~paused)
       => /\ cpc' = "idle"
          /\ pn_ret' = "false"
          /\ UNCHANGED <<rdvars, ldvars, flagvars, clkvars, pvars, c_ptr, c_published,
                         c_t, published, seek_floor, quiet>>]_vars

\* C8 witness: a play_next() call was rejected in the middle of a pass, with a message
\* published and another one waiting in the queue
C8_Witness ==
  /\ pn_log.how = "rejected"
  /\ pn_ret = "false"
  /\ published # <<>>
  /\ message_queue_ # <<>>
  /\ ~skip_message_in_main_play_loop_

\* C9: every seek invocation completes, whatever the requested time and whether
\* play() has not started, is in a pass, is paused or has returned
C9_SeekCompletes == (cpc = "sk_wait") ~> (cpc = "idle" \/ ~Alive)

\* C10: no message of a topic without a publisher is published, and with a non-empty
\* topics_to_filter no topic outside the filter has a publisher or is published
C10_OnlyFilteredTopics ==
  /\ topics_to_filter # {} => publishers_ \subseteq topics_to_filter
  /\ \A k \in 1..Len(published) :
       /\ bag[published[k].msg].topic \in publishers_
       /\ topics_to_filter # {} => bag[published[k].msg].topic \in topics_to_filter

\* C10 witness: with the filter {"a"} and a message of topic "b" first in the bag, the
\* pass has ended and a message was published
C10_Witness ==
  /\ topics_to_filter = {"a"}
  /\ Len(bag) = 2
  /\ bag[1].topic = "b"
  /\ published # <<>>
  /\ ppc = "done"

\* C14: rewrite() with no reader or no writer fails with an error, before it reads a
\* message from any reader and before it writes to any writer
C14_EmptyArgumentsFail ==
  /\ (Len(input_bags) = 0 \/ num_writers = 0)
       => /\ rw_pc \in {"off", "start", "error"}
          /\ \A i \in 1..Len(input_bags) : rd_pos[i] = 0
          /\ \A w \in 1..num_writers : output_bags[w] = <<>>
  /\ rw_pc = "error" => (Len(input_bags) = 0 \/ num_writers = 0)

C14_Witness ==
  /\ rw_pc = "error"
  /\ num_writers = 0
  /\ Len(input_bags) > 0
  /\ Len(input_bags[1]) > 0

\* C16: once play() waits for the filled queue, the loader task eventually has
\* enqueued every message of the bag and has terminated, and wait_for_filled_queue
\* has returned
C16_LoaderExhaustsReader ==
  (ppc = "wait_filled")
    ~> (/\ ~HasNext
        /\ \A l \in LoaderIds : lpc[l] \in {"off", "done"}
        /\ ppc # "wait_filled")

\* C18: the play loop never dereferences a peeked element that another thread has
\* popped since the peek
C18_NoDerefAfterForeignPop ==
  [][(ppc = "loop_head" /\ p_ptr # 0 /\ ppc' # "loop_head") => ~p_stale]_vars

\* C19: when seek returns during an active, unpaused pass and the reader has messages
\* at or after the target, a loader task is running to enqueue them
C19_LoaderRunsAfterSeek ==
  [][(/\ cpc = "sk_crit" /\ cpc' = "idle"
      /\ ~paused
      /\ ppc \in {"loop_head", "sleep", "lock", "repeek"}
      /\ HasNext')
       => \E l \in LoaderIds : lpc'[l] \in {"top", "enq"}]_vars

\* C17: the message the play loop hands to publish_message is the element at the head
\* of the queue, which the same step pops: never a message that play_next has popped
\* or seek has purged, and after a take-over the held message is dropped without a pop
C17_PlayLoopPublishesHead ==
  [][(ppc = "lock" /\ ppc' = "repeek")
       => IF skip_message_in_main_play_loop_
          THEN published' = published /\ message_queue_' = message_queue_
          ELSE /\ message_queue_ # <<>>
               /\ p_msg = Head(message_queue_)
               /\ message_queue_' = Tail(message_queue_)]_vars

C17_Witness ==
  /\ \E i, j \in 1..Len(published) :
        i < j /\ published[i].by = "next" /\ published[j].by = "loop"
  /\ ~skip_message_in_main_play_loop_
  /\ ppc = "repeek"

\* a step that calls reader_->seek from play() or seek(), or reader_->has_next at the
\* top of the loader task's loop
ReaderCallOutsideEnqueue ==
  \/ ppc \in {"idle", "again"} /\ ppc' = "spawn"
  \/ cpc = "sk_crit" /\ cpc' = "idle"
  \/ \E l \in LoaderIds : lpc[l] = "top" /\ lpc'[l] \in {"enq", "exit"}

ListedTopicsPublished ==
  \A k \in 1..Len(rec_topics) :
      /\ graph[ExpandTopicName(rec_topics[k])].reliable
           + graph[ExpandTopicName(rec_topics[k])].best_effort > 0
      /\ ExpandTopicName(rec_topics[k]) \notin unsubscribable

\* C11: with an explicit topic list of size K whose topics all have publishers, the
\* discovery task eventually has K subscriptions and returns
C11_DiscoveryTerminates ==
  (/\ Len(rec_topics) > 0
   /\ dpc = "top"
   /\ ListedTopicsPublished)
    ~> (dpc = "done" /\ Cardinality(DOMAIN subscriptions_) = Len(rec_topics))

\* C12: over the life of the recorder at most one incompatibility warning is logged
\* for a topic
C12_WarnOncePerTopic == \A t \in RcTopicNames : warnings[t] <= 1

\* C13: every write the writer receives is for a topic it has been told to create and
\* has not been told to remove since
C13_WriteOnlyKnownTopics == \A w \in write_log : w.known

C13_Witness ==
  /\ \E w \in write_log : w.topic = "/x"
  /\ sub_subscription = "null"
  /\ "/x" \in DOMAIN subscriptions_

\* C15: record() with an empty rmw_serialization_format fails, and then the writer is
\* not open, no topic and no subscription exists, and discovery has not started
C15_EmptyFormatFails ==
  /\ (rmw_serialization_format = "" /\ rec_pc # "start") => rec_pc = "error"
  /\ rec_pc = "error"
       => /\ rmw_serialization_format = ""
          /\ ~writer_open
          /\ writer_topics = {}
          /\ callbacks = {}
          /\ DOMAIN subscriptions_ = {}
          /\ dpc = "off"

C15_Witness ==
  /\ rec_pc = "error"
  /\ ~is_discovery_disabled
  /\ \E t \in RcTopicNames : graph[t].reliable > 0

\* the messages of reader i that get_next has returned so far
RwReturnedFrom(i) ==
  Cardinality({k \in 1..Len(input_bags[i]) :
                 \/ num_writers > 0
                    /\ \E n \in 1..Len(output_bags[1]) : output_bags[1][n] = input_bags[i][k]
                 \/ rw_pc = "write" /\ next_msg = input_bags[i][k]})

\* C27: get_next returns, among the heads with the smallest time stamp, the one of the
\* reader with the smallest index; each reader's messages come out in its own order;
\* a reader is at most one message ahead of what was returned, and read_next is called
\* only on a reader whose slot is empty and which has a next message
C27_TiesBySmallestIndex ==
  /\ [](rw_pc = "write"
          => \A i \in 1..Len(next_messages) :
               next_messages[i] # nullptr
                 => \/ next_messages[i].time_stamp > next_msg.time_stamp
                    \/ /\ next_messages[i].time_stamp = next_msg.time_stamp
                       /\ i > next_msg.src)
  /\ [](\A w \in 1..num_writers : \A a, b \in 1..Len(output_bags[w]) :
          (a < b /\ output_bags[w][a].src = output_bags[w][b].src)
            => output_bags[w][a].seq < output_bags[w][b].seq)
  /\ [](rw_pc \in {"get_next", "write", "done"}
          => \A i \in 1..Len(input_bags) :
               rd_pos[i] = RwReturnedFrom(i)
                           + (IF next_messages[i] # nullptr THEN 1 ELSE 0))
  /\ [][\A i \in 1..Len(input_bags) :
          rd_pos'[i] # rd_pos[i]
            => /\ next_messages[i] = nullptr
               /\ RwHasNext(i)
               /\ rd_pos'[i] = rd_pos[i] + 1]_vars

C27_Witness ==
  /\ rw_pc = "write"
  /\ next_msg.src = 1
  /\ next_msg.seq = 2
  /\ Len(next_messages) = 2
  /\ next_messages[2] # nullptr
  /\ next_messages[2].time_stamp = next_msg.time_stamp

\* C28: a subscribe_topic call starts only for a topic that has no subscription and
\* that the writer does not have; when it returns after a successful creation the
\* topic is in subscriptions_ and in the writer, and after a failed one in neither
C28_SubscribeTopicOutcome ==
  /\ [][(sub_topic = "" /\ sub_topic' # "")
          => /\ sub_topic' \notin DOMAIN subscriptions_
             /\ sub_topic' \notin writer_topics
             /\ sub_topic' \notin callbacks]_vars
  /\ [][(sub_topic # "" /\ sub_topic' = "")
          => IF sub_subscription = "created"
             THEN /\ sub_topic \in DOMAIN subscriptions_'
                  /\ sub_topic \in writer_topics'
             ELSE /\ sub_subscription = "null"
                  /\ sub_topic \notin DOMAIN subscriptions_'
                  /\ sub_topic \notin writer_topics']_vars
  /\ [](sub_topic = "" => (DOMAIN subscriptions_ = writer_topics
                            /\ callbacks = writer_topics))

C28_Witness ==
  /\ dpc = "top"
  /\ d_topics = {"/x", "/y"}
  /\ "/x" \in DOMAIN subscriptions_
  /\ "/y" \in unsubscribable
  /\ "/y" \notin writer_topics

\* the queue holds the messages the reader delivered last, in its order, up to the
\* cursor: nothing the reader delivered before its latest seek
QueueIsReadAhead ==
  /\ \A k \in 1..Len(message_queue_) :
        /\ message_queue_[k] < cursor
        /\ NextIndex(message_queue_[k]) = message_queue_[k]
  /\ \A k \in 1..(Len(message_queue_) - 1) :
        NextIndex(message_queue_[k] + 1) = message_queue_[k + 1]
  /\ message_queue_ # <<>>
       => NextIndex(message_queue_[Len(message_queue_)] + 1) = NextIndex(cursor)

\* C21: seek leaves its critical section with an empty queue and the cursor at the
\* target, and not while a loader task is inside a batch; whatever is enqueued
\* comes from the reader's current cursor, so the queue never holds a message read
\* before the seek
C21_NoPreSeekMessageQueued ==
  /\ [][(cpc = "sk_crit" /\ cpc' = "idle")
          => /\ message_queue_' = <<>>
             /\ cursor' = ReaderSeek(c_t)
             /\ \A l \in LoaderIds : lpc[l] # "enq"]_vars
  /\ [][Len(message_queue_') > Len(message_queue_)
          => /\ HasNext
             /\ message_queue_' = Append(message_queue_, ReadNext)
             /\ cursor' = ReadNext + 1]_vars
  /\ []QueueIsReadAhead

C21_Witness ==
  /\ cpc = "idle"
  /\ seek_floor > 1
  /\ message_queue_ # <<>>
  /\ \E i \in 1..Len(published) : published[i].by = "loop"

\* C22: in every state the time stamps of the queued messages are ordered from head
\* to tail, across loop restarts and seeks too
C22_QueueMonotone ==
  \A k \in 1..(Len(message_queue_) - 1) :
    bag[message_queue_[k]].time_stamp <= bag[message_queue_[k + 1]].time_stamp

\* C23: the queue never holds more than read_ahead_queue_size messages
C23_QueueWithinBound == Len(message_queue_) <= read_ahead_queue_size

C23_Witness ==
  /\ Len(message_queue_) = read_ahead_queue_size
  /\ HasNext
  /\ seek_floor > 0
  /\ \E i \in 1..Len(published) : published[i].by = "loop"

\* is_ready_to_play_from_queue_ becomes true only after the play loop's first peek and
\* false only after play_messages_from_queue has returned, and is false outside a pass
ReadinessFollowsPass ==
  /\ [][(~is_ready_to_play_from_queue_ /\ is_ready_to_play_from_queue_')
          => (ppc \in {"first_peek", "first_final"} /\ ppc' = "loop_head")]_vars
  /\ [][(is_ready_to_play_from_queue_ /\ ~is_ready_to_play_from_queue_')
          => ppc = "clear_ready"]_vars
  /\ [](ppc \in {"idle", "again", "spawn", "join_old", "wait_filled", "first_peek",
                  "first_final", "done", "capped"}
          => ~is_ready_to_play_from_queue_)

\* a step of play_next or seek that peeks, pops or purges the queue
ControlTouchesQueue ==
  \/ cpc \in {"pn_peek", "pn_final", "pn_loop"} /\ cpc' # cpc
  \/ cpc = "sk_crit" /\ cpc' = "idle"

\* C24: the readiness flag is raised once per pass after the first peek and lowered
\* once after the play loop has returned, is false outside a pass, and play_next and
\* seek touch the queue only while it is true
C24_ReadinessGuardsQueue ==
  /\ ReadinessFollowsPass
  /\ [][ControlTouchesQueue => is_ready_to_play_from_queue_]_vars

\* C25: a step of play_next changes the time of the clock only when it has published
\* the message whose time stamp it jumps to
C25_PlayNextJumpsOnPublish ==
  [][(cpc = "pn_loop" /\ now' # now)
       => (PublishMessage(c_ptr) /\ now' = bag[c_ptr].time_stamp)]_vars

\* C26, as stated: the pass does not end, and readiness is not cleared, while the
\* clock is paused
C26_NoPassEndWhilePaused ==
  [][(is_ready_to_play_from_queue_ /\ ~is_ready_to_play_from_queue_') => ~paused]_vars

\* C26, amended: play_messages_from_queue leaves its final loop only on finding the
\* clock not paused; a player that is paused at the end of the queue stays there
\* until resume()
C26_ReturnsOnlyUnpaused ==
  [][(ppc = "tail" /\ paused) => (ppc' = "tail" /\ is_ready_to_play_from_queue_')]_vars

C26_Witness ==
  /\ ppc = "tail"
  /\ paused
  /\ message_queue_ = <<>>
  /\ pn_log.how = "ran"
  /\ Len(published) > 0

\* C29: with loop disabled and a queue of 2 or more, play() returns if the clock is
\* eventually left resumed
C29_PlayReturns == (<>[](~paused)) => <>(ppc = "done")

====
